---- MODULE Spec2Model ----
(***************************************************************************)
(* Face-landmark tensor decoder (tensordec-facelandmark): configuration,   *)
(* coordinate mapping, point/line rasterization and the decode pass.       *)
(***************************************************************************)
EXTENDS Integers, Naturals, Sequences, FiniteSets, TLC

(* ------------------------------------------------------------------ *)
(* Bounds of the model                                                  *)
(* ------------------------------------------------------------------ *)
\* Largest output/input dimension a size option sets.
MaxDim == 3
\* Largest landmark coordinate supplied in the tensor (besides the huge one).
MaxLm == 2
\* Largest endpoint coordinate of the stand-alone line walks.
MaxCoord == 4
\* Number of decode calls followed on one decoder instance.
MaxDecodes == 2

(* ------------------------------------------------------------------ *)
(* Program constants                                                    *)
(* ------------------------------------------------------------------ *)
MEDIAPIPE_NUM_FACE_LANDMARKS == 468
LINE_WIDTH_DEFAULT == 1
POINT_SIZE_DEFAULT == 2
LINE_MAX_CONNECTIONS == 40
\* Pixels are 32-bit words, written here as their four bytes, high to low.
LINE_COLOR_DEFAULT == <<255, 255, 0, 0>>
POINT_COLOR_DEFAULT == <<255, 0, 0, 255>>
ZeroPixel == <<0, 0, 0, 0>>
INT_MAX == 2147483647
INT_MIN == (-2147483647) - 1

mediapipe_keypoints ==
  << << 10, 338, 297, 332, 284, 251, 389, 356, 454, 323, 361,
        288, 397, 365, 379, 378, 400, 377, 152, 148, 176, 149, 150, 136, 172,
        58, 132, 93, 234, 127, 162, 21, 54, 103, 67, 109, 10 >>,
     << 61, 185, 40, 39, 37, 0, 267, 269, 270, 409, 291 >>,
     << 146, 91, 181, 84, 17, 314, 405, 321, 375, 291 >>,
     << 78, 191, 80, 81, 82, 13, 312, 311, 310, 415, 308 >>,
     << 78, 95, 88, 178, 87, 14, 317, 402, 318, 324, 308 >>,
     << 246, 161, 160, 159, 158, 157, 173 >>,
     << 33, 7, 163, 144, 145, 153, 154, 155, 133 >>,
     << 70, 63, 105, 66, 107 >>,
     << 46, 53, 52, 65, 55 >>,
     << 466, 388, 387, 386, 385, 384, 398 >>,
     << 263, 249, 390, 373, 374, 380, 381, 382, 362 >>,
     << 300, 293, 334, 296, 336 >>,
     << 276, 283, 282, 295, 285 >> >>

\* num_connections with the last group declared one index short.
num_connections_short == << 37, 11, 10, 11, 11, 7, 9, 5, 5, 7, 9, 5, 4 >>

\* num_connections of each group, as declared next to its index list.
num_connections == << 37, 11, 10, 11, 11, 7, 9, 5, 5, 7, 9, 5, 5 >>

MEDIAPIPE_NUM_KEYPOINTS == Len(mediapipe_keypoints)

(* ------------------------------------------------------------------ *)
(* Arithmetic helpers                                                   *)
(* ------------------------------------------------------------------ *)
ABS(a) == IF a < 0 THEN -a ELSE a
MAX(a, b) == IF a > b THEN a ELSE b
MIN(a, b) == IF a < b THEN a ELSE b

(* ------------------------------------------------------------------ *)
(* draw_line: one iteration of the while (TRUE) loop.                   *)
(* st = [x0, y0, error, exit]; exit is "run" while the loop continues,  *)
(* "end" for the break at the endpoint test, "xbrk"/"ybrk" for the      *)
(* breaks inside the x and y step tests.  The stamp at the top of the   *)
(* iteration is the caller's.                                            *)
(* ------------------------------------------------------------------ *)
LineStart(x0, y0, x1, y1) ==
  [x0 |-> x0, y0 |-> y0, error |-> ABS(x1 - x0) + (-ABS(y1 - y0)), exit |-> "run"]

LineStepX(st, x1, y1, dx, dy, sx) ==
  IF st.error * 2 >= dy
    THEN IF st.x0 = x1
           THEN [st EXCEPT !.exit = "xbrk"]
           ELSE [st EXCEPT !.error = st.error + dy, !.x0 = st.x0 + sx]
    ELSE st

\* LineStepY without the break at y0 == y1.
LineStepY_nobreak(st, x1, y1, dx, dy, sy) ==
  IF st.exit # "run" THEN st
  ELSE IF st.error * 2 <= dx
    THEN [st EXCEPT !.error = st.error + dx, !.y0 = st.y0 + sy]
    ELSE st

LineStepY(st, x1, y1, dx, dy, sy) ==
  IF st.exit # "run" THEN st
  ELSE IF st.error * 2 <= dx
    THEN IF st.y0 = y1
           THEN [st EXCEPT !.exit = "ybrk"]
           ELSE [st EXCEPT !.error = st.error + dx, !.y0 = st.y0 + sy]
    ELSE st

\* LineStep with the endpoint test taken when either coordinate has arrived.
LineStep_or(st, ox0, oy0, x1, y1) ==
  LET dx == ABS(x1 - ox0)
      sx == IF ox0 < x1 THEN 1 ELSE -1
      dy == -ABS(y1 - oy0)
      sy == IF oy0 < y1 THEN 1 ELSE -1
  IN IF st.x0 = x1 \/ st.y0 = y1
       THEN [st EXCEPT !.exit = "end"]
       ELSE LineStepY(LineStepX(st, x1, y1, dx, dy, sx), x1, y1, dx, dy, sy)

LineStep(st, ox0, oy0, x1, y1) ==
  LET dx == ABS(x1 - ox0)
      sx == IF ox0 < x1 THEN 1 ELSE -1
      dy == -ABS(y1 - oy0)
      sy == IF oy0 < y1 THEN 1 ELSE -1
  IN IF st.x0 = x1 /\ st.y0 = y1
       THEN [st EXCEPT !.exit = "end"]
       ELSE LineStepY(LineStepX(st, x1, y1, dx, dy, sx), x1, y1, dx, dy, sy)

(* ------------------------------------------------------------------ *)
(* Coordinate mapping of fl_decode.                                     *)
(* A tensor value (float) is [m, big]: the number m * 2^40 when big,    *)
(* else m.  The quotient (width * lx) / i_width is a float: finite      *)
(* (kind "fin", here already truncated toward zero as the cast does),   *)
(* or beyond the range of int ("pos"/"neg"), or not a number ("nan").   *)
(* ------------------------------------------------------------------ *)
\* TruncDiv that rounds up.
TruncDiv_ceil(n, d) == IF n >= 0 THEN (n + d - 1) \div d ELSE -((-n) \div d)

TruncDiv(n, d) == IF n >= 0 THEN n \div d ELSE -((-n) \div d)

ScaleQuot(dim, lv, idim) ==
  LET s == dim * lv.m
  IN IF idim = 0
       THEN [kind |-> IF s > 0 THEN "pos" ELSE IF s < 0 THEN "neg" ELSE "nan", v |-> 0]
     ELSE IF lv.big /\ s # 0
       THEN [kind |-> IF s > 0 THEN "pos" ELSE "neg", v |-> 0]
     ELSE [kind |-> "fin", v |-> TruncDiv(s, idim)]

\* (int) of a float.  Out of the range of int (or NaN) the conversion is
\* undefined; the result is what the build's conversion instruction gives:
\* "indef" always INT_MIN, "sat" saturating with NaN to 0.
CastInt(q, build) ==
  IF q.kind = "fin" THEN q.v
  ELSE IF build = "indef" THEN INT_MIN
  ELSE IF q.kind = "pos" THEN INT_MAX
  ELSE IF q.kind = "neg" THEN INT_MIN
  ELSE 0

\* x = (int) ((dim * l) / idim), before the clamps.
RawCoord(dim, lv, idim, build) == CastInt(ScaleQuot(dim, lv, idim), build)

\* TransformCoord without the lower clamp.
TransformCoord_nomax(dim, lv, idim, build) ==
  MIN(dim - 1, CastInt(ScaleQuot(dim, lv, idim), build))

\* x = (int) ((dim * l) / idim); x = MAX (0, x); p.x = MIN ((int) dim - 1, x)
TransformCoord(dim, lv, idim, build) ==
  MIN(dim - 1, MAX(0, CastInt(ScaleQuot(dim, lv, idim), build)))

\* The loop over the MEDIAPIPE_NUM_FACE_LANDMARKS landmarks of input[0].
TransformPoints(fldata, landmarks, build) ==
  [i \in 1..MEDIAPIPE_NUM_FACE_LANDMARKS |->
     [x |-> TransformCoord(fldata.width, landmarks[i].x, fldata.i_width, build),
      y |-> TransformCoord(fldata.height, landmarks[i].y, fldata.i_height, build),
      z |-> landmarks[i].z]]

\* _sigmoid (x) = 1 / (1 + expf (-x)), in units of 1/10000, for integer x.
SigmoidTable == << 5000, 7311, 8808, 9526, 9820, 9933, 9975, 9991, 9997, 9999 >>

sigmoid(x) ==
  IF x >= 10 THEN 10000
  ELSE IF x <= -10 THEN 0
  ELSE IF x >= 0 THEN SigmoidTable[x + 1]
  ELSE 10000 - SigmoidTable[(-x) + 1]

(* ------------------------------------------------------------------ *)
(* Drawing state: d = [px, wr, segs]                                    *)
(*   px   the mapped frame, pixel index -> pixel value                  *)
(*   wr   every index a frame[...] = color statement has targeted       *)
(*   segs the (x0, y0, x1, y1) arguments of the draw_line calls so far  *)
(* ------------------------------------------------------------------ *)
\* PointClipped that also skips the first column.
PointClipped_tight(x, y, width, height) ==
  x <= 0 \/ x > width \/ y < 0 \/ y > height

\* The clip test of draw_point: TRUE when the offset is skipped.
PointClipped(x, y, width, height) ==
  x < 0 \/ x > width \/ y < 0 \/ y > height

\* Indices targeted by one draw_point call.
PointTargets(width, height, px, py, r) ==
  { (py + j) * width + (px + i) :
      <<i, j>> \in { ij \in (-r..r) \X (-r..r) :
                       ~PointClipped(px + ij[1], py + ij[2], width, height) } }

\* A store past the end of the mapped region does not land in the frame;
\* it is kept in wr.
draw_point(d, fldata, px, py, r, color) ==
  LET t == PointTargets(fldata.width, fldata.height, px, py, r)
      npx == [k \in DOMAIN d.px |-> IF k \in t THEN color ELSE d.px[k]]
  IN [d EXCEPT !.px = npx @@ <<>>,
               !.wr = d.wr \cup t]

RECURSIVE draw_line_loop(_, _, _, _, _, _, _)
draw_line_loop(d, fldata, st, ox0, oy0, x1, y1) ==
  LET d1 == draw_point(d, fldata, st.x0, st.y0, fldata.line_width, LINE_COLOR_DEFAULT)
      st1 == LineStep(st, ox0, oy0, x1, y1)
  IN IF st1.exit # "run" THEN d1
     ELSE draw_line_loop(d1, fldata, st1, ox0, oy0, x1, y1)

draw_line(d, fldata, x0, y0, x1, y1) ==
  draw_line_loop([d EXCEPT !.segs = Append(d.segs, <<x0, y0, x1, y1>>)],
                 fldata, LineStart(x0, y0, x1, y1), x0, y0, x1, y1)

\* draw_lines: the for loop from i (0-based) on, over keypoint group g.
RECURSIVE draw_lines_from(_, _, _, _, _)
draw_lines_from(d, fldata, points, g, i) ==
  IF ~(i < num_connections[g] - 1) THEN d
  ELSE LET p0 == points[mediapipe_keypoints[g][i + 1] + 1]
           p1 == points[mediapipe_keypoints[g][i + 2] + 1]
           d1 == draw_line(d, fldata, p0.x, p0.y, p1.x, p1.y)
       IN \* the test only makes this segment be evaluated before the next
          IF d1.wr = {} THEN draw_lines_from(d1, fldata, points, g, i + 1)
          ELSE draw_lines_from(d1, fldata, points, g, i + 1)

\* draw_lines with the loop started at the second index.
draw_lines_skipfirst(d, fldata, points, g) == draw_lines_from(d, fldata, points, g, 1)

draw_lines(d, fldata, points, g) == draw_lines_from(d, fldata, points, g, 0)

RECURSIVE draw_all_lines(_, _, _, _)
draw_all_lines(d, fldata, points, i) ==
  IF ~(i < fldata.num_keypoints) THEN d
  ELSE LET d1 == draw_lines(d, fldata, points, i + 1)
       IN \* the test only makes this group be evaluated before the next
          IF d1.wr = {} THEN draw_all_lines(d1, fldata, points, i + 1)
          ELSE draw_all_lines(d1, fldata, points, i + 1)

\* The "Draw points" loop of draw over the 0-based indices lo..hi, in
\* index order (the range is split in halves, the lower half first).
RECURSIVE draw_points_range(_, _, _, _, _)
draw_points_range(d, fldata, points, lo, hi) ==
  IF lo > hi THEN d
  ELSE IF lo = hi
    THEN draw_point(d, fldata, points[lo + 1].x, points[lo + 1].y,
                    fldata.point_size, POINT_COLOR_DEFAULT)
  ELSE LET mid == (lo + hi) \div 2
           first == draw_points_range(d, fldata, points, lo, mid)
       IN \* the test only makes the lower half be evaluated first
          IF first.wr = {} THEN draw_points_range(first, fldata, points, mid + 1, hi)
          ELSE draw_points_range(first, fldata, points, mid + 1, hi)

\* draw_all_points that hides the points when no landmark has z = 0.
draw_all_points_depth(d, fldata, points) ==
  IF \A i \in DOMAIN points : points[i].z # 0 THEN d
  ELSE draw_points_range(d, fldata, points, 0, Len(points) - 1)

draw_all_points(d, fldata, points) ==
  draw_points_range(d, fldata, points, 0, Len(points) - 1)

\* draw with the two loops in the other order: points first, then lines.
draw_points_first(d, fldata, points) ==
  draw_all_lines(draw_all_points(d, fldata, points), fldata, points, 0)

\* draw: lines first, then points.
draw(d, fldata, points) ==
  draw_all_points(draw_all_lines(d, fldata, points, 0), fldata, points)


(* ------------------------------------------------------------------ *)
(* State                                                                *)
(* ------------------------------------------------------------------ *)
VARIABLES
  fldata,    \* face_landmark_data of the decoder instance
  input,     \* the tensors of the stream: [landmarks, logit, num_tensors]
  build,     \* what the build's float-to-int conversion does out of range
  outbuf,    \* the caller's GstBuffer: [size, nmem, data]
  frame,     \* the mapped memory at the end of the last decode
  wr,        \* indices targeted by the pixel stores of the last decode
  segs,      \* draw_line calls of the last decode
  points,    \* face.points of the last decode (<<>> when none was built)
  ret,       \* result of the last decode: "none", "GST_FLOW_OK", "GST_FLOW_ERROR", "abort"
  trace,     \* steps of the last decode, in order
  ndecode,   \* number of decode calls so far
  line,      \* a stand-alone draw_line call
  tp,        \* a stand-alone coordinate mapping
  pt,        \* a stand-alone draw_point call
  opt        \* a stand-alone fl_setOption call

vars == <<fldata, input, build, outbuf, frame, wr, segs, points, ret, trace, ndecode, line, tp, pt, opt>>

decoderVars == <<fldata, input, build, outbuf, frame, wr, segs, points, ret, trace, ndecode>>

MEDIAPIPE_FACE_MESH == 0
FACE_LANDMARK_UNKNOWN == 1

\* fl_init: g_new0 zeroes the fields the function does not set.
fl_init ==
  [mode |-> FACE_LANDMARK_UNKNOWN, prob_threshold |-> 5000,
   line_width |-> 0, point_size |-> 0,
   keypoints |-> "NULL", num_keypoints |-> 0,
   width |-> 0, height |-> 0, i_width |-> 0, i_height |-> 0]


(* ------------------------------------------------------------------ *)
(* fl_decode                                                            *)
(* ------------------------------------------------------------------ *)
\* Contents of memory nobody has written yet.
GarbagePixel == <<171, 171, 171, 171>>

\* The memory mapped by the call: newly allocated when the caller's buffer
\* is empty, else the buffer's own memory (grown to size when smaller).
MappedData(ob, npix, fresh) ==
  IF ob.size = 0
    THEN [k \in 0..(npix - 1) |-> fresh]
    ELSE [k \in 0..(MAX(ob.size \div 4, npix) - 1) |->
            IF k \in DOMAIN ob.data THEN ob.data[k] ELSE fresh]

\* Memset0 that sets every byte.
Memset0_ones(data, npix) ==
  [k \in DOMAIN data |-> IF k < npix THEN <<255, 255, 255, 255>> ELSE data[k]]

\* Memset0 that leaves the mapping as it was.
Memset0_skip(data, npix) == data

\* memset (out_info.data, 0, size): the first npix pixels of the mapping.
Memset0(data, npix) ==
  [k \in DOMAIN data |-> IF k < npix THEN ZeroPixel ELSE data[k]]

\* BufferTaken without gst_buffer_set_size.
BufferTaken_nogrow(ob, size) == ob

\* The caller's buffer once the call has taken its memory (before any store).
BufferTaken(ob, size) ==
  IF ob.size = 0 THEN ob
  ELSE [ob EXCEPT !.size = MAX(ob.size, size)]

\* error_free without the release.
error_free_leak == <<>>

\* error_free: gst_memory_unref (out_mem)
error_free == <<"unref">>

\* error_unmap without the unmap.
error_unmap_skip == error_free

\* error_unmap: gst_memory_unmap (out_mem, &out_info), then error_free
error_unmap == <<"unmap">> \o error_free

\* ModeSupported that takes every mode.
ModeSupported_any(mode) == TRUE

\* fldata->mode == MEDIAPIPE_FACE_MESH
ModeSupported(mode) == mode = MEDIAPIPE_FACE_MESH

\* FaceValid that never gates.
FaceValid_always(prob, prob_threshold) == TRUE

\* FaceValid with a strict comparison.
FaceValid_strict(prob, prob_threshold) == prob > prob_threshold

\* face.valid = (face.prob >= fldata->prob_threshold)
FaceValid(prob, prob_threshold) == prob >= prob_threshold

\* asserts tells whether g_assert is compiled in; when it is not, a call with
\* fewer than two tensors reads input[1] past the array and inp.logit stands
\* for the value it finds there.
\* points_release that keeps the array.
points_release_leak == <<>>

\* if (face.points != NULL) g_array_free (face.points, TRUE)
points_release == <<"points_free">>

\* success_exit that hands the memory to the buffer while it is still mapped.
success_exit_early(need_output_alloc) ==
  (IF need_output_alloc THEN <<"append">> ELSE <<"unref">>) \o <<"unmap">>

\* The end of the success path: gst_memory_unmap, then
\* gst_buffer_append_memory or gst_memory_unref.
success_exit(need_output_alloc) ==
  <<"unmap">> \o (IF need_output_alloc THEN <<"append">> ELSE <<"unref">>)

fl_decode(fd, ob, inp, map_ok, fresh, bld, asserts) ==
  LET size == fd.width * fd.height * 4
      npix == fd.width * fd.height
      need_output_alloc == (ob.size = 0)
      t0 == IF need_output_alloc THEN <<"alloc">>
            ELSE IF ob.size < size THEN <<"set_size", "get_all_memory">>
            ELSE <<"get_all_memory">>
      ob1 == BufferTaken(ob, size)
      mapped == MappedData(ob, npix, fresh)
      d0 == [px |-> Memset0(mapped, npix), wr |-> {}, segs |-> <<>>]
      \* the caller's buffer sees the stores when its own memory is mapped
      share(o, px) == IF need_output_alloc THEN o ELSE [o EXCEPT !.data = px]
  IN IF ~map_ok
       THEN \* goto error_free
            [ret |-> "GST_FLOW_ERROR", outbuf |-> share(ob1, mapped),
             frame |-> mapped, wr |-> {}, segs |-> <<>>, points |-> <<>>,
             trace |-> t0 \o <<"map_fail">> \o error_free]
     ELSE IF ~ModeSupported(fd.mode)
       THEN \* goto error_unmap
            [ret |-> "GST_FLOW_ERROR", outbuf |-> share(ob1, d0.px),
             frame |-> d0.px, wr |-> {}, segs |-> <<>>, points |-> <<>>,
             trace |-> t0 \o <<"map", "memset">> \o error_unmap]
     ELSE IF inp.num_tensors # 2 /\ asserts
       THEN \* g_assert (num_tensors == 2)
            [ret |-> "abort", outbuf |-> share(ob1, d0.px),
             frame |-> d0.px, wr |-> {}, segs |-> <<>>, points |-> <<>>,
             trace |-> t0 \o <<"map", "memset", "assert_fail">>]
     ELSE
       LET pts == TransformPoints(fd, inp.landmarks, bld)
           prob == sigmoid(inp.logit)
           valid == FaceValid(prob, fd.prob_threshold)
           d1 == IF valid THEN draw(d0, fd, pts) ELSE d0
           obN == IF need_output_alloc
                    THEN [size |-> size, nmem |-> ob.nmem + 1, data |-> d1.px]
                    ELSE share(ob1, d1.px)
       IN [ret |-> "GST_FLOW_OK", outbuf |-> obN,
           frame |-> d1.px, wr |-> d1.wr, segs |-> d1.segs, points |-> pts,
           trace |-> t0 \o <<"map", "memset", "points_new">>
                       \o (IF valid THEN <<"draw">> ELSE <<>>)
                       \o points_release
                       \o success_exit(need_output_alloc)]


(* ------------------------------------------------------------------ *)
(* Inputs of the model                                                  *)
(* ------------------------------------------------------------------ *)
Fin(v) == [m |-> v, big |-> FALSE]
Huge == [m |-> 1, big |-> TRUE]

\* Landmark (x, y, z).
Lm(x, y, z) == [x |-> x, y |-> y, z |-> z]

\* A landmark tensor: a at the even indices, b at the odd ones.
LandmarkTensor(a, b) ==
  [i \in 1..MEDIAPIPE_NUM_FACE_LANDMARKS |-> IF (i - 1) % 2 = 0 THEN a ELSE b]

\* The (a, b) the model's tensors are made of: a on the left edge at the
\* largest y, b with x beyond the range of int and y below zero.
LmPairs ==
  { <<Lm(Fin(0), Fin(MaxLm), 0), Lm(Huge, Fin(-1), 1)>> }

Logits == {0, 1}

\* The streams of two tensors (landmarks, presence logit).
MeshInputs ==
  { [landmarks |-> LandmarkTensor(ab[1], ab[2]), logit |-> l, num_tensors |-> 2] :
      <<ab, l>> \in LmPairs \X Logits }

\* A stream that carries the landmark tensor only.
OneTensorInput ==
  [landmarks |-> LandmarkTensor(Lm(Fin(0), Fin(MaxLm), 0), Lm(Huge, Fin(-1), 1)),
   logit |-> 1, num_tensors |-> 1]

Inputs == MeshInputs \cup {OneTensorInput}

Builds == {"indef", "sat"}

ModeParams == {"mediapipe-face-mesh", "unknown-mode"}
ThresholdParams == {5000, 8000}

\* A size option string: NULL, or the numbers it holds ("" holds none).
DimParams ==
  { [isnull |-> TRUE, dim |-> <<>>], [isnull |-> FALSE, dim |-> <<>>],
    [isnull |-> FALSE, dim |-> <<1>>],
    [isnull |-> FALSE, dim |-> <<1, 1>>],
    [isnull |-> FALSE, dim |-> <<MaxDim, MaxDim - 1>>],
    [isnull |-> FALSE, dim |-> <<MaxDim, MaxDim - 1, 1>>] }

EmptyBuffer == [size |-> 0, nmem |-> 0, data |-> <<>>]

\* A buffer of one pixel the caller has used before.
StalePixel == <<18, 52, 86, 120>>
StaleBuffer == [size |-> 4, nmem |-> 1, data |-> (0 :> StalePixel)]

CallerBuffers == {EmptyBuffer, StaleBuffer}

NoLine == [ox0 |-> 0, oy0 |-> 0, x1 |-> 0, y1 |-> 0,
           st |-> [x0 |-> 0, y0 |-> 0, error |-> 0, exit |-> "idle"],
           visited |-> <<>>]

\* raw and out are the coordinate before and after the clamps; raw2 and out2
\* are those of the same landmark on an output of twice the size.
NoMap == [dim |-> 0, idim |-> 0, lv |-> Fin(0), build |-> "indef", done |-> FALSE,
          out |-> 0, raw |-> 0, out2 |-> 0, raw2 |-> 0]

NoPoint == [px |-> 0, py |-> 0, r |-> 0, before |-> <<>>, done |-> FALSE]

NoOpt == [opNum |-> -1, param |-> "", before |-> fl_init, ret |-> "none"]

(* ------------------------------------------------------------------ *)
(* The decoder instance                                                 *)
(* ------------------------------------------------------------------ *)
Init ==
  /\ fldata = fl_init
  /\ input \in Inputs
  /\ build \in Builds
  /\ outbuf = EmptyBuffer
  /\ frame = <<>>
  /\ wr = {}
  /\ segs = <<>>
  /\ points = <<>>
  /\ ret = "none"
  /\ trace = <<>>
  /\ ndecode = 0
  /\ line = NoLine
  /\ tp = NoMap
  /\ pt = NoPoint
  /\ opt = NoOpt

\* find_key_strv (fl_modes, param): the index of param in fl_modes, else -1.
find_key_strv(param) ==
  IF param = "mediapipe-face-mesh" THEN MEDIAPIPE_FACE_MESH ELSE -1

\* SetOptionMode that leaves the table attached on an unsupported mode.
SetOptionMode_keep(fd, param) ==
  LET m == find_key_strv(param)
  IN IF m = MEDIAPIPE_FACE_MESH
       THEN [fd EXCEPT !.mode = m,
                       !.line_width = LINE_WIDTH_DEFAULT,
                       !.point_size = POINT_SIZE_DEFAULT,
                       !.keypoints = "mediapipe_keypoints",
                       !.num_keypoints = MEDIAPIPE_NUM_KEYPOINTS]
       ELSE [fd EXCEPT !.mode = m]

\* fl_setOption, opNum == 0
SetOptionMode(fd, param) ==
  LET m == find_key_strv(param)
  IN IF m = MEDIAPIPE_FACE_MESH
       THEN [fd EXCEPT !.mode = m,
                       !.line_width = LINE_WIDTH_DEFAULT,
                       !.point_size = POINT_SIZE_DEFAULT,
                       !.keypoints = "mediapipe_keypoints",
                       !.num_keypoints = MEDIAPIPE_NUM_KEYPOINTS]
       ELSE [fd EXCEPT !.mode = m, !.keypoints = "NULL", !.num_keypoints = 0]

\* SetOptionThreshold that stores the value in every mode.
SetOptionThreshold_always(fd, param) == [fd EXCEPT !.prob_threshold = param]

\* fl_setOption, opNum == 1
SetOptionThreshold(fd, param) ==
  IF fd.mode = MEDIAPIPE_FACE_MESH THEN [fd EXCEPT !.prob_threshold = param] ELSE fd

\* gst_tensor_parse_dimension: the number of dimensions parsed.
ParseRank(param) == IF param.isnull THEN 0 ELSE Len(param.dim)

\* SetOptionOutSize that resets the size on a parameter of rank below 2.
SetOptionOutSize_reset(fd, param) ==
  IF param.isnull \/ param.dim = <<>> THEN fd
  ELSE IF ParseRank(param) < 2 THEN [fd EXCEPT !.width = 0, !.height = 0]
  ELSE [fd EXCEPT !.width = param.dim[1], !.height = param.dim[2]]

\* fl_setOption, opNum == 2
SetOptionOutSize(fd, param) ==
  IF param.isnull \/ param.dim = <<>> THEN fd
  ELSE IF ParseRank(param) < 2 THEN fd
  ELSE [fd EXCEPT !.width = param.dim[1], !.height = param.dim[2]]

\* fl_setOption, opNum == 3
SetOptionInSize(fd, param) ==
  IF param.isnull \/ param.dim = <<>> THEN fd
  ELSE IF ParseRank(param) < 2 THEN fd
  ELSE [fd EXCEPT !.i_width = param.dim[1], !.i_height = param.dim[2]]

\* fl_setOption: the configuration after the call and the value returned.
fl_setOption(fd, opNum, param) ==
  [fd |-> CASE opNum = 0 -> SetOptionMode(fd, param)
            [] opNum = 1 -> SetOptionThreshold(fd, param)
            [] opNum = 2 -> SetOptionOutSize(fd, param)
            [] opNum = 3 -> SetOptionInSize(fd, param)
            [] OTHER -> fd,
   ret |-> TRUE]

\* The stream goes on: the process has not aborted, and no decode call has
\* returned GST_FLOW_ERROR (the pipeline stops streaming on it).
Alive == ret \notin {"abort", "GST_FLOW_ERROR"}

fl_setOption_mode ==
  /\ Alive /\ ndecode = 0
  /\ \E param \in ModeParams : fldata' = SetOptionMode(fldata, param)
  /\ UNCHANGED <<input, build, outbuf, frame, wr, segs, points, ret, trace, ndecode, line, tp, pt, opt>>

fl_setOption_threshold ==
  /\ Alive /\ ndecode = 0
  /\ \E param \in ThresholdParams : fldata' = SetOptionThreshold(fldata, param)
  /\ UNCHANGED <<input, build, outbuf, frame, wr, segs, points, ret, trace, ndecode, line, tp, pt, opt>>

fl_setOption_outsize ==
  /\ Alive /\ ndecode = 0
  /\ \E param \in DimParams : fldata' = SetOptionOutSize(fldata, param)
  /\ UNCHANGED <<input, build, outbuf, frame, wr, segs, points, ret, trace, ndecode, line, tp, pt, opt>>

fl_setOption_insize ==
  /\ Alive /\ ndecode = 0
  /\ \E param \in DimParams : fldata' = SetOptionInSize(fldata, param)
  /\ UNCHANGED <<input, build, outbuf, frame, wr, segs, points, ret, trace, ndecode, line, tp, pt, opt>>

\* fl_decode_pdata that starts every call from the initial configuration.
fl_decode_pdata_reset(fd) == fl_init

\* *pdata after fl_decode: the function, draw, draw_lines, draw_line and
\* draw_point only read through fldata.
fl_decode_pdata(fd) == fd

Decode ==
  /\ Alive /\ ndecode < MaxDecodes
  /\ \E map_ok \in BOOLEAN,
        asserts \in (IF input.num_tensors = 2 THEN {TRUE} ELSE BOOLEAN) :
       LET r == fl_decode(fldata, outbuf, input, map_ok, GarbagePixel, build, asserts)
       IN /\ ret' = r.ret
          /\ outbuf' = r.outbuf
          /\ frame' = r.frame
          /\ wr' = r.wr
          /\ segs' = r.segs
          /\ points' = r.points
          /\ trace' = r.trace
  /\ fldata' = fl_decode_pdata(fldata)
  /\ ndecode' = ndecode + 1
  /\ UNCHANGED <<input, build, line, tp, pt, opt>>

\* After a decode call the caller hands another buffer to the next one: an
\* empty one, or one it has used before.
NewBuffer ==
  /\ Alive /\ 0 < ndecode /\ ndecode < MaxDecodes
  /\ \E b \in CallerBuffers : b # outbuf /\ outbuf' = b
  /\ UNCHANGED <<fldata, input, build, frame, wr, segs, points, ret, trace, ndecode, line, tp, pt, opt>>

Next ==
  \/ fl_setOption_mode
  \/ fl_setOption_threshold
  \/ fl_setOption_outsize
  \/ fl_setOption_insize
  \/ Decode
  \/ NewBuffer

Spec == Init /\ [][Next]_vars


(* ------------------------------------------------------------------ *)
(* A stand-alone draw_line call, one loop iteration per step.           *)
(* line.visited lists the centres passed to draw_point, in order.       *)
(* ------------------------------------------------------------------ *)
LineCoords == (-1)..MaxCoord

LineInit ==
  /\ fldata = fl_init
  /\ input = CHOOSE i \in Inputs : TRUE
  /\ build = "indef"
  /\ outbuf = EmptyBuffer
  /\ frame = <<>>
  /\ wr = {}
  /\ segs = <<>>
  /\ points = <<>>
  /\ ret = "none"
  /\ trace = <<>>
  /\ ndecode = 0
  /\ tp = NoMap
  /\ pt = NoPoint
  /\ opt = NoOpt
  /\ \E x0 \in LineCoords, y0 \in LineCoords, x1 \in LineCoords, y1 \in LineCoords :
       line = [ox0 |-> x0, oy0 |-> y0, x1 |-> x1, y1 |-> y1,
               st |-> LineStart(x0, y0, x1, y1), visited |-> <<>>]

\* One pass through the body of while (TRUE) in draw_line.
LineIter ==
  /\ line.st.exit = "run"
  /\ line' = [line EXCEPT
                !.visited = Append(line.visited, <<line.st.x0, line.st.y0>>),
                !.st = LineStep(line.st, line.ox0, line.oy0, line.x1, line.y1)]
  /\ UNCHANGED <<decoderVars, tp, pt, opt>>

LineNext == LineIter

SpecLine == LineInit /\ [][LineNext]_vars

\* The loop body is run again as long as no break was taken.
SpecLineFair == SpecLine /\ WF_vars(LineIter)

LineExited == line.st.exit \in {"end", "xbrk", "ybrk"}


(* ------------------------------------------------------------------ *)
(* A stand-alone coordinate mapping: one axis of one landmark.          *)
(* ------------------------------------------------------------------ *)
NegHuge == [m |-> -1, big |-> TRUE]

MapLm == { Fin(v) : v \in (-MaxLm)..(MaxDim + MaxLm) } \cup {Huge, NegHuge}

MapInit ==
  /\ fldata = fl_init
  /\ input = CHOOSE i \in Inputs : TRUE
  /\ build = "indef"
  /\ outbuf = EmptyBuffer
  /\ frame = <<>>
  /\ wr = {}
  /\ segs = <<>>
  /\ points = <<>>
  /\ ret = "none"
  /\ trace = <<>>
  /\ ndecode = 0
  /\ line = NoLine
  /\ pt = NoPoint
  /\ opt = NoOpt
  /\ \E dim \in 0..MaxDim, idim \in 0..MaxDim, lv \in MapLm, b \in Builds :
       tp = [dim |-> dim, idim |-> idim, lv |-> lv, build |-> b, done |-> FALSE,
             out |-> 0, raw |-> 0, out2 |-> 0, raw2 |-> 0]

MapApply ==
  /\ ~tp.done
  /\ tp' = [tp EXCEPT !.done = TRUE,
                      !.out = TransformCoord(tp.dim, tp.lv, tp.idim, tp.build),
                      !.raw = RawCoord(tp.dim, tp.lv, tp.idim, tp.build),
                      !.out2 = TransformCoord(2 * tp.dim, tp.lv, tp.idim, tp.build),
                      !.raw2 = RawCoord(2 * tp.dim, tp.lv, tp.idim, tp.build)]
  /\ UNCHANGED <<decoderVars, line, pt, opt>>

MapNext == MapApply

SpecMap == MapInit /\ [][MapNext]_vars


(* ------------------------------------------------------------------ *)
(* A stand-alone draw_point call on a frame of width * height pixels    *)
(* nobody has written yet.                                              *)
(* ------------------------------------------------------------------ *)
PointRadii == 0..POINT_SIZE_DEFAULT

PointCoords == (-1)..MaxDim

PointInit ==
  /\ input = CHOOSE i \in Inputs : TRUE
  /\ build = "indef"
  /\ outbuf = EmptyBuffer
  /\ wr = {}
  /\ segs = <<>>
  /\ points = <<>>
  /\ ret = "none"
  /\ trace = <<>>
  /\ ndecode = 0
  /\ line = NoLine
  /\ tp = NoMap
  /\ opt = NoOpt
  /\ \E w \in 0..MaxDim, h \in 0..MaxDim :
       /\ fldata = [fl_init EXCEPT !.width = w, !.height = h]
       /\ frame = [k \in 0..(w * h - 1) |-> GarbagePixel]
  /\ \E px \in PointCoords, py \in PointCoords, r \in PointRadii :
       pt = [px |-> px, py |-> py, r |-> r, before |-> frame, done |-> FALSE]

PointApply ==
  /\ ~pt.done
  /\ LET d == draw_point([px |-> frame, wr |-> {}, segs |-> <<>>], fldata,
                         pt.px, pt.py, pt.r, POINT_COLOR_DEFAULT)
     IN /\ frame' = d.px
        /\ wr' = d.wr
  /\ pt' = [pt EXCEPT !.done = TRUE]
  /\ UNCHANGED <<fldata, input, build, outbuf, segs, points, ret, trace, ndecode, line, tp, opt>>

PointNext == PointApply

SpecPoint == PointInit /\ [][PointNext]_vars


(* ------------------------------------------------------------------ *)
(* Stand-alone fl_setOption calls on one decoder instance; opt keeps    *)
(* the last call with the configuration it found.                       *)
(* ------------------------------------------------------------------ *)
OptInit ==
  /\ fldata = fl_init
  /\ input = CHOOSE i \in Inputs : TRUE
  /\ build = "indef"
  /\ outbuf = EmptyBuffer
  /\ frame = <<>>
  /\ wr = {}
  /\ segs = <<>>
  /\ points = <<>>
  /\ ret = "none"
  /\ trace = <<>>
  /\ ndecode = 0
  /\ line = NoLine
  /\ tp = NoMap
  /\ pt = NoPoint
  /\ opt = NoOpt

\* The record of a call that found configuration fd and returned r.
OptRecord(opNum, param, fd, r) ==
  [opNum |-> opNum, param |-> param, before |-> fd, ret |-> r]

OptMode ==
  /\ \E param \in ModeParams :
       /\ fldata' = fl_setOption(fldata, 0, param).fd
       /\ opt' = OptRecord(0, param, fldata, fl_setOption(fldata, 0, param).ret)
  /\ UNCHANGED <<input, build, outbuf, frame, wr, segs, points, ret, trace, ndecode, line, tp, pt>>

OptThreshold ==
  /\ \E param \in ThresholdParams :
       /\ fldata' = fl_setOption(fldata, 1, param).fd
       /\ opt' = OptRecord(1, param, fldata, fl_setOption(fldata, 1, param).ret)
  /\ UNCHANGED <<input, build, outbuf, frame, wr, segs, points, ret, trace, ndecode, line, tp, pt>>

OptSize ==
  /\ \E opNum \in {2, 3}, param \in DimParams :
       /\ fldata' = fl_setOption(fldata, opNum, param).fd
       /\ opt' = OptRecord(opNum, param, fldata, fl_setOption(fldata, opNum, param).ret)
  /\ UNCHANGED <<input, build, outbuf, frame, wr, segs, points, ret, trace, ndecode, line, tp, pt>>

\* An option number the decoder does not know.
OptOther ==
  /\ fldata' = fl_setOption(fldata, 4, "").fd
  /\ opt' = OptRecord(4, "", fldata, fl_setOption(fldata, 4, "").ret)
  /\ UNCHANGED <<input, build, outbuf, frame, wr, segs, points, ret, trace, ndecode, line, tp, pt>>

OptNext == OptMode \/ OptThreshold \/ OptSize \/ OptOther

SpecOpt == OptInit /\ [][OptNext]_vars


(* ------------------------------------------------------------------ *)
(* A stream whose landmark tensors differ in their z values only, on a   *)
(* configured face-mesh decoder.                                         *)
(* ------------------------------------------------------------------ *)
ZValues == {0, 1}

DepthSizes == { <<MaxDim, MaxDim - 1>>, <<MaxDim - 1, MaxDim>> }

\* The instance after mode, output size and input size have been set.
MeshConfig(size) ==
  LET dim == [isnull |-> FALSE, dim |-> size]
  IN fl_setOption(fl_setOption(fl_setOption(fl_init, 0, "mediapipe-face-mesh").fd,
                               2, dim).fd, 3, dim).fd

\* The tensor with z = za at the even indices and z = zb at the odd ones.
WithZ(landmarks, za, zb) ==
  [i \in DOMAIN landmarks |->
     [landmarks[i] EXCEPT !.z = IF (i - 1) % 2 = 0 THEN za ELSE zb]]

DepthInit ==
  /\ fldata \in { MeshConfig(size) : size \in DepthSizes }
  /\ input \in MeshInputs
  /\ build \in Builds
  /\ outbuf = EmptyBuffer
  /\ frame = <<>>
  /\ wr = {}
  /\ segs = <<>>
  /\ points = <<>>
  /\ ret = "none"
  /\ trace = <<>>
  /\ ndecode = 0
  /\ line = NoLine
  /\ tp = NoMap
  /\ pt = NoPoint
  /\ opt = NoOpt

\* The next tensors of the stream: the same landmarks at another depth.
NextDepth ==
  /\ Alive
  /\ \E za \in ZValues, zb \in ZValues :
       /\ input' = [input EXCEPT !.landmarks = WithZ(input.landmarks, za, zb)]
       /\ input' # input
  /\ UNCHANGED <<fldata, build, outbuf, frame, wr, segs, points, ret, trace, ndecode, line, tp, pt, opt>>

DepthNext == Decode \/ NextDepth

SpecDepth == DepthInit /\ [][DepthNext]_vars


(* ------------------------------------------------------------------ *)
(* Properties                                                           *)
(* ------------------------------------------------------------------ *)
NumPixels == fldata.width * fldata.height

\* The last decode call mapped the output memory.
Mapped == \E i \in DOMAIN trace : trace[i] = "map"

\* The last decode call ran draw.
Drew == \E i \in DOMAIN trace : trace[i] = "draw"

\* The last decode call was given the two tensors of mediapipe-face-mesh.
MeshCall ==
  ndecode > 0 /\ Mapped /\ fldata.mode = MEDIAPIPE_FACE_MESH /\ input.num_tensors = 2

Presence == sigmoid(input.logit)

\* The distinct transformed points of the last decode.
PointSet == { <<points[i].x, points[i].y>> : i \in DOMAIN points }

\* C1: with all four dimensions positive, every pixel store of a decode
\* call targets an index in [0, width*height - 1].
C1_NoWriteOutsideFrame ==
  (fldata.width > 0 /\ fldata.height > 0 /\ fldata.i_width > 0 /\ fldata.i_height > 0)
    => \A k \in wr : 0 <= k /\ k <= NumPixels - 1

\* The mathematical mapping: clamp(floor(dim * l / idim), 0, dim - 1).
\* dim * 2^40 / idim is beyond dim - 1 for every dim and idim of the model.
ClampedFloor(dim, lv, idim) ==
  IF lv.big
    THEN (IF lv.m > 0 THEN dim - 1 ELSE 0)
    ELSE MIN(dim - 1, MAX(0, (dim * lv.m) \div idim))

\* C2: for positive dimensions the transformed coordinate of every landmark
\* is clamp(floor(dim * l / idim), 0, dim - 1).
C2_MapIsClampedFloor ==
  (tp.done /\ tp.dim > 0 /\ tp.idim > 0)
    => tp.out = ClampedFloor(tp.dim, tp.lv, tp.idim)

\* C3: for a positive output dimension every transformed coordinate lies in
\* [0, dim - 1], whatever the landmark value.
C3_PointInRange ==
  (tp.done /\ tp.dim > 0) => (0 <= tp.out /\ tp.out <= tp.dim - 1)

\* C3 witness: a landmark beyond the range of int has been mapped.
C3_Witness ==
  tp.done /\ tp.dim > 1 /\ tp.lv.big /\ tp.build = "sat" /\ tp.out = tp.dim - 1

\* C4: a mediapipe-face-mesh decode whose presence is below the threshold
\* returns GST_FLOW_OK with the frame all zero: no point, no line.
C4_BelowThresholdClear ==
  (MeshCall /\ Presence < fldata.prob_threshold)
    => /\ ret = "GST_FLOW_OK"
       /\ wr = {}
       /\ segs = <<>>
       /\ \A k \in DOMAIN frame : k < NumPixels => frame[k] = ZeroPixel

\* C4 witness: such a decode into a frame that has pixels.
C4_Witness ==
  MeshCall /\ Presence < fldata.prob_threshold /\ ret = "GST_FLOW_OK" /\ NumPixels > 0

\* C5: a mediapipe-face-mesh decode whose presence is at or above the
\* threshold draws: all line segments are rasterized and every transformed
\* point is stamped.
C5_AtOrAboveThresholdDraws ==
  (MeshCall /\ Presence >= fldata.prob_threshold)
    => /\ ret = "GST_FLOW_OK"
       /\ Drew
       /\ segs # <<>>
       /\ (fldata.width > 0 /\ fldata.height > 0)
            => \A p \in PointSet : frame[p[2] * fldata.width + p[1]] = POINT_COLOR_DEFAULT

\* C5 witness: presence equal to the threshold, drawn into a frame with pixels.
C5_Witness ==
  MeshCall /\ Presence = fldata.prob_threshold /\ ret = "GST_FLOW_OK" /\ NumPixels > 0

\* C6: after a decode that draws, every pixel of the frame inside the square
\* of a transformed point holds the point color (lines lie under points).
C6_PointsOverLines ==
  (Drew /\ ret = "GST_FLOW_OK" /\ fldata.width > 0 /\ fldata.height > 0)
    => \A p \in PointSet :
         \A x \in (p[1] - fldata.point_size)..(p[1] + fldata.point_size),
            y \in (p[2] - fldata.point_size)..(p[2] + fldata.point_size) :
           (0 <= x /\ x < fldata.width /\ 0 <= y /\ y < fldata.height)
             => frame[y * fldata.width + x] = POINT_COLOR_DEFAULT

\* C6 witness: a decode drew a line between two distinct points.
C6_Witness ==
  /\ Drew /\ ret = "GST_FLOW_OK" /\ NumPixels > 1
  /\ \E k \in DOMAIN segs : segs[k][1] # segs[k][3] \/ segs[k][2] # segs[k][4]

\* C7: a draw_line call passes both its start and its end to draw_point.
C7_BothEndpointsStamped ==
  LineExited
    => /\ \E i \in DOMAIN line.visited : line.visited[i] = <<line.ox0, line.oy0>>
       /\ \E i \in DOMAIN line.visited : line.visited[i] = <<line.x1, line.y1>>

\* The segments of group g over the transformed points pts, in list order.
GroupSegs(pts, g) ==
  [i \in 1..(Len(mediapipe_keypoints[g]) - 1) |->
     LET p0 == pts[mediapipe_keypoints[g][i] + 1]
         p1 == pts[mediapipe_keypoints[g][i + 1] + 1]
     IN <<p0.x, p0.y, p1.x, p1.y>>]

RECURSIVE AllGroupSegs(_, _)
AllGroupSegs(pts, g) ==
  IF g > Len(mediapipe_keypoints) THEN <<>>
  ELSE GroupSegs(pts, g) \o AllGroupSegs(pts, g + 1)

\* C8: a decode that draws rasterizes, for every group of length k, the k-1
\* segments of its consecutive index pairs in list order: 119 in all.
C8_SegmentsPerGroup ==
  Drew => (Len(segs) = 119 /\ segs = AllGroupSegs(points, 1))

\* C8 witness: a decode drew segments between distinct points.
C8_Witness ==
  Drew /\ Len(segs) = 119 /\ Cardinality(PointSet) > 1

\* C9: draw_line terminates, and when its loop exits the cursor is at the
\* endpoint.
C9_TerminatesAtEndpoint ==
  /\ <>LineExited
  /\ [](LineExited => (line.st.x0 = line.x1 /\ line.st.y0 = line.y1))

\* C9 witness: a walk of several steps has left the loop through a break of
\* the step tests.
C9_Witness ==
  LineExited /\ line.st.exit = "ybrk" /\ Len(line.visited) >= 2

\* The classic error-accumulator walk: e2 = 2 * error is sampled once per
\* iteration and tested against dy and against dx.
RECURSIVE ClassicWalk(_, _, _, _, _, _, _)
ClassicWalk(x, y, err, x1, y1, ox0, oy0) ==
  LET dx == ABS(x1 - ox0)
      sx == IF ox0 < x1 THEN 1 ELSE -1
      dy == -ABS(y1 - oy0)
      sy == IF oy0 < y1 THEN 1 ELSE -1
      e2 == 2 * err
      stepx == e2 >= dy
      stepy == e2 <= dx
  IN IF x = x1 /\ y = y1 THEN << <<x, y>> >>
     ELSE IF (stepx /\ x = x1) \/ (stepy /\ y = y1) THEN << <<x, y>> >>
     ELSE << <<x, y>> >> \o
          ClassicWalk(IF stepx THEN x + sx ELSE x, IF stepy THEN y + sy ELSE y,
                      err + (IF stepx THEN dy ELSE 0) + (IF stepy THEN dx ELSE 0),
                      x1, y1, ox0, oy0)

\* C10: the centres draw_line visits are those of the classic walk.
C10_SameAsClassicBresenham ==
  LineExited
    => line.visited =
         ClassicWalk(line.ox0, line.oy0,
                     ABS(line.x1 - line.ox0) - ABS(line.y1 - line.oy0),
                     line.x1, line.y1, line.ox0, line.oy0)

\* The offsets of the square of the stand-alone draw_point call.
PointSquare ==
  { <<x, y>> \in ((pt.px - pt.r)..(pt.px + pt.r)) \X ((pt.py - pt.r)..(pt.py + pt.r)) : TRUE }

InFrame(x, y) == 0 <= x /\ x < fldata.width /\ 0 <= y /\ y < fldata.height

\* C11: after draw_point (px, py, r, color) every pixel of the square
\* [px-r, px+r] x [py-r, py+r] that lies inside the frame holds color.
C11_SquareFilled ==
  pt.done
    => \A xy \in PointSquare :
         InFrame(xy[1], xy[2]) => frame[xy[2] * fldata.width + xy[1]] = POINT_COLOR_DEFAULT

\* C11 witness: a call whose square lies partly inside and partly outside
\* the frame.
C11_Witness ==
  /\ pt.done /\ pt.r > 0
  /\ \E xy \in PointSquare : InFrame(xy[1], xy[2])
  /\ \E xy \in PointSquare : ~InFrame(xy[1], xy[2])

\* C12: draw_point (px, py, r, color) leaves unchanged every frame pixel
\* whose (column, row) lies outside the square [px-r, px+r] x [py-r, py+r].
C12_OutsideSquareUnchanged ==
  pt.done
    => \A k \in DOMAIN frame :
         <<k % fldata.width, k \div fldata.width>> \notin PointSquare
           => frame[k] = pt.before[k]


\* How often a decode's steps tr hold the step lbl.
CountIn(tr, lbl) == Cardinality({ i \in DOMAIN tr : tr[i] = lbl })

Count(lbl) == CountIn(trace, lbl)

\* The last decode call returned to its caller.
Returned == ndecode > 0 /\ ret \in {"GST_FLOW_OK", "GST_FLOW_ERROR"}

\* C13: on every path on which decode returns, the memory is unmapped once
\* if it was mapped and not at all otherwise, and its reference is either
\* released once or appended to the caller's buffer once, never both.
C13_UnmapAndReleaseOnce ==
  Returned
    => /\ Count("map") + Count("map_fail") = 1
       /\ Count("unmap") = Count("map")
       /\ Count("unref") + Count("append") = 1

\* C13 witness: a decode that mapped the memory left through error_unmap.
C13_Witness ==
  Returned /\ ret = "GST_FLOW_ERROR" /\ Count("map") = 1 /\ Count("unmap") = 1

\* C14: a decode whose mapping fails returns GST_FLOW_ERROR after a single
\* mapping attempt, without zero-fill or drawing; it releases the memory and
\* appends nothing to the caller's buffer, whose pixels stay as they were.
C14_MapFailureReleases ==
  [][(ndecode' = ndecode + 1 /\ CountIn(trace', "map_fail") > 0)
       => /\ ret' = "GST_FLOW_ERROR"
          /\ CountIn(trace', "map_fail") = 1 /\ CountIn(trace', "map") = 0
          /\ CountIn(trace', "memset") = 0 /\ CountIn(trace', "draw") = 0
          /\ wr' = {} /\ segs' = <<>>
          /\ CountIn(trace', "unref") = 1 /\ CountIn(trace', "append") = 0
          /\ outbuf'.nmem = outbuf.nmem
          /\ \A k \in DOMAIN outbuf.data : outbuf'.data[k] = outbuf.data[k]]_vars

\* C14 witness: the mapping of a caller's buffer that holds pixels failed.
C14_Witness ==
  ndecode > 0 /\ Count("map_fail") = 1 /\ outbuf.size > 0

\* C15: a decode call in a mode that is not supported returns
\* GST_FLOW_ERROR, draws no point and no line and appends no memory.
C15_UnsupportedModeFails ==
  (ndecode > 0 /\ fldata.mode # MEDIAPIPE_FACE_MESH)
    => /\ ret = "GST_FLOW_ERROR"
       /\ Count("draw") = 0 /\ wr = {} /\ segs = <<>>
       /\ Count("append") = 0

\* C15 witness: such a call with an unrecognized mode name, past the mapping
\* of a frame that has pixels.
C15_Witness ==
  ndecode > 0 /\ fldata.mode = -1 /\ Mapped /\ NumPixels > 0

\* C16: a mediapipe-face-mesh decode whose tensor count is not 2 returns
\* GST_FLOW_ERROR to its caller and draws nothing.
C16_WrongTensorCountFails ==
  (ndecode > 0 /\ Mapped /\ fldata.mode = MEDIAPIPE_FACE_MESH /\ input.num_tensors # 2)
    => (ret = "GST_FLOW_ERROR" /\ wr = {} /\ segs = <<>>)

\* C17: a successful decode into a buffer of size 0 allocates one region of
\* width*height*4 bytes and appends it; into a buffer of at least that size
\* it writes in place and appends nothing; into a smaller, nonzero one it
\* first grows the buffer to that size, then writes in place.
C17_AllocReuseGrow ==
  [][(ndecode' = ndecode + 1 /\ ret' = "GST_FLOW_OK")
       => LET need == fldata.width * fldata.height * 4
              inplace == /\ CountIn(trace', "alloc") = 0
                         /\ CountIn(trace', "append") = 0
                         /\ outbuf'.nmem = outbuf.nmem
                         /\ outbuf'.data = frame'
          IN /\ (outbuf.size = 0)
                  => /\ CountIn(trace', "alloc") = 1 /\ CountIn(trace', "append") = 1
                     /\ outbuf'.nmem = outbuf.nmem + 1
                     /\ outbuf'.size = need
                     /\ outbuf'.data = frame'
             /\ (outbuf.size # 0 /\ outbuf.size >= need)
                  => /\ inplace
                     /\ CountIn(trace', "set_size") = 0
                     /\ outbuf'.size = outbuf.size
             /\ (outbuf.size # 0 /\ outbuf.size < need)
                  => /\ inplace
                     /\ trace'[1] = "set_size"
                     /\ outbuf'.size = need]_vars

\* C17 witness: a successful decode grew a smaller buffer of the caller.
C17_Witness ==
  ndecode > 0 /\ ret = "GST_FLOW_OK" /\ Count("set_size") = 1 /\ outbuf.size = NumPixels * 4

\* C18: a mediapipe-face-mesh decode with output width or height 0, input
\* dimensions above 0 and presence at or above the threshold returns
\* GST_FLOW_OK and stores no pixel.
C18_ZeroDimsNoWrite ==
  (/\ MeshCall /\ Presence >= fldata.prob_threshold
   /\ (fldata.width = 0 \/ fldata.height = 0)
   /\ fldata.i_width > 0 /\ fldata.i_height > 0)
    => (ret = "GST_FLOW_OK" /\ wr = {})

\* C19: a successful decode gives the same first width*height pixels as the
\* successful decode before it on the same tensors and configuration,
\* whether it got the buffer that decode filled, an empty one or a stale
\* one; a buffer that is large enough keeps its memory.
C19_SameOutputWhateverBuffer ==
  [][(/\ ndecode' = ndecode + 1 /\ input.num_tensors = 2
      /\ ret = "GST_FLOW_OK" /\ ret' = "GST_FLOW_OK")
       => /\ \A k \in 0..(NumPixels - 1) : frame'[k] = frame[k]
          /\ (outbuf.size # 0 /\ outbuf.size >= NumPixels * 4)
               => outbuf'.nmem = outbuf.nmem]_vars

\* C19 witness: a second decode has drawn into the buffer the first one filled.
C19_Witness ==
  /\ ndecode = 2 /\ ret = "GST_FLOW_OK" /\ input.num_tensors = 2
  /\ Count("get_all_memory") = 1 /\ Count("set_size") = 0
  /\ NumPixels > 1 /\ Drew

\* The last stand-alone call was a size option with a parameter that is
\* NULL, empty or of fewer than 2 dimensions.
BadSizeCall ==
  opt.opNum \in {2, 3} /\ (opt.param.isnull \/ Len(opt.param.dim) < 2)

\* C20: a size option whose parameter is NULL, empty or of fewer than 2
\* dimensions leaves every configuration field as it was, and fl_setOption
\* returns TRUE.
C20_BadSizeIgnored ==
  BadSizeCall => (fldata = opt.before /\ opt.ret = TRUE)

\* C20 witness: such a call on a decoder whose sizes had been set.
C20_Witness ==
  /\ BadSizeCall /\ opt.ret = TRUE
  /\ ~opt.param.isnull /\ Len(opt.param.dim) = 1
  /\ opt.before.width > 0 /\ opt.before.i_width > 0


\* Neither the coordinate nor the one on the doubled output was clamped.
Unclamped ==
  /\ 0 <= tp.raw /\ tp.raw <= tp.dim - 1
  /\ 0 <= tp.raw2 /\ tp.raw2 <= 2 * tp.dim - 1

\* C21 as stated: on an output of twice the width and height every
\* transformed coordinate is exactly 2 times its value, when neither is clamped.
C21_DoubledExactly ==
  (tp.done /\ Unclamped) => tp.out2 = 2 * tp.out

\* C21, amended: on an output of twice the width and height every
\* transformed coordinate is 2 times its value or 2 times its value plus 1,
\* when neither is clamped (the cast truncates after the scaling).
C21_DoubledUpToTruncation ==
  (tp.done /\ Unclamped) => tp.out2 \in {2 * tp.out, 2 * tp.out + 1}

\* C21 witness: an unclamped coordinate whose double gains 1.
C21_Witness ==
  tp.done /\ Unclamped /\ tp.dim > 1 /\ tp.out > 0 /\ tp.out2 = 2 * tp.out + 1

\* Pixels of the output frame.
FramePixels == { frame[k] : k \in (0..(NumPixels - 1)) \cap DOMAIN frame }

\* C22: after a successful decode every pixel of the output frame is 0, the
\* line colour 0xFFFF0000 or the point colour 0xFF0000FF; when nothing was
\* drawn every pixel is 0.
C22_ThreePixelValues ==
  (ndecode > 0 /\ ret = "GST_FLOW_OK")
    => /\ (0..(NumPixels - 1)) \subseteq DOMAIN frame
       /\ FramePixels \subseteq {ZeroPixel, LINE_COLOR_DEFAULT, POINT_COLOR_DEFAULT}
       /\ ~Drew => FramePixels \subseteq {ZeroPixel}

\* C22 witness: a successful decode has drawn, and the frame holds
\* point-coloured pixels.
C22_Witness ==
  /\ ndecode > 0 /\ ret = "GST_FLOW_OK" /\ NumPixels > 1
  /\ Drew /\ POINT_COLOR_DEFAULT \in FramePixels

\* C23: the frame and the result code of a decode do not depend on the z of
\* any landmark: a decode that follows a successful one on the same
\* configuration, on tensors that may differ in z only, succeeds whenever its
\* memory is mapped and leaves the same frame.
C23_DepthNotConsumed ==
  [][(/\ ndecode' = ndecode + 1 /\ ret = "GST_FLOW_OK"
      /\ \E i \in DOMAIN trace' : trace'[i] = "map")
       => /\ ret' = ret
          /\ \A k \in 0..(NumPixels - 1) : frame'[k] = frame[k]]_vars

\* C23 witness: two successful decodes have drawn, the second from points
\* whose z all differ from those of the input of the model.
C23_Witness ==
  /\ ndecode = 2 /\ ret = "GST_FLOW_OK" /\ Drew /\ NumPixels > 1
  /\ fldata.i_width > 0
  /\ \A i \in DOMAIN points : points[i].z = 1 - ((i - 1) % 2)

Before(a, b) ==
  \A i \in DOMAIN trace, j \in DOMAIN trace :
    (trace[i] = a /\ trace[j] = b) => i < j

\* C25: within one decode call the buffer is zero-filled only after a
\* successful map and before any point or line write; every pixel write
\* happens while the memory is mapped; and the memory is attached to the
\* caller's buffer only after the unmap and only on the success path.
C25_StepsOrdered ==
  /\ Count("memset") > 0 => (Count("map") = 1 /\ Count("map_fail") = 0)
  /\ Before("map", "memset") /\ Before("memset", "draw")
  /\ Count("draw") > 0 => (Count("memset") = 1 /\ Count("unmap") = 1)
  /\ wr # {} => Count("draw") = 1
  /\ Before("map", "draw") /\ Before("draw", "unmap")
  /\ Count("append") > 0 => (Count("unmap") = 1 /\ ret = "GST_FLOW_OK")
  /\ Before("unmap", "append")

\* C25 witness: a decode has mapped, zero-filled and drawn into new memory,
\* unmapped it and attached it to the caller's buffer.
C25_Witness ==
  /\ Count("map") = 1 /\ Count("memset") = 1 /\ Count("draw") = 1
  /\ Count("unmap") = 1 /\ Count("append") = 1 /\ wr # {}

\* C26: every topology group has a declared length equal to the number of
\* indices it lists, between 2 and LINE_MAX_CONNECTIONS, and every listed
\* index is in [0, 467], so that every lookup draw_lines makes is inside the
\* point list decode has built, which has 468 entries.
C26_TopologyInRange ==
  /\ Len(num_connections) = MEDIAPIPE_NUM_KEYPOINTS
  /\ \A g \in 1..MEDIAPIPE_NUM_KEYPOINTS :
       /\ num_connections[g] = Len(mediapipe_keypoints[g])
       /\ 2 <= num_connections[g] /\ num_connections[g] <= LINE_MAX_CONNECTIONS
       /\ \A i \in 1..Len(mediapipe_keypoints[g]) :
            mediapipe_keypoints[g][i] \in 0..(MEDIAPIPE_NUM_FACE_LANDMARKS - 1)
  /\ fldata.num_keypoints \in {0, MEDIAPIPE_NUM_KEYPOINTS}
  /\ Drew =>
       /\ Len(points) = MEDIAPIPE_NUM_FACE_LANDMARKS
       /\ \A g \in 1..fldata.num_keypoints :
            \A i \in 1..num_connections[g] :
              (mediapipe_keypoints[g][i] + 1) \in DOMAIN points

\* C26 witness: a decode has drawn every segment of every group.
C26_Witness ==
  /\ Drew /\ Len(points) = MEDIAPIPE_NUM_FACE_LANDMARKS
  /\ fldata.num_keypoints = MEDIAPIPE_NUM_KEYPOINTS
  /\ Len(segs) = 119

\* C27: after any sequence of setOption calls following init, the keypoint
\* table is attached if and only if the mode is mediapipe-face-mesh: in that
\* mode keypoints is the 13-group table, num_keypoints 13, line_width 1 and
\* point_size 2; in any other mode keypoints is NULL and num_keypoints 0.
C27_TableIffMesh ==
  /\ fldata.mode = MEDIAPIPE_FACE_MESH =>
       /\ fldata.keypoints = "mediapipe_keypoints"
       /\ fldata.num_keypoints = MEDIAPIPE_NUM_KEYPOINTS
       /\ MEDIAPIPE_NUM_KEYPOINTS = 13
       /\ fldata.line_width = LINE_WIDTH_DEFAULT /\ LINE_WIDTH_DEFAULT = 1
       /\ fldata.point_size = POINT_SIZE_DEFAULT /\ POINT_SIZE_DEFAULT = 2
  /\ fldata.mode # MEDIAPIPE_FACE_MESH =>
       (fldata.keypoints = "NULL" /\ fldata.num_keypoints = 0)

\* C27 witness: the mode option has taken a face-mesh decoder whose sizes
\* were set to an unsupported mode, and the table is detached.
C27_Witness ==
  /\ opt.opNum = 0 /\ opt.before.mode = MEDIAPIPE_FACE_MESH
  /\ opt.before.num_keypoints = MEDIAPIPE_NUM_KEYPOINTS /\ opt.before.width > 0
  /\ fldata.mode # MEDIAPIPE_FACE_MESH /\ fldata.keypoints = "NULL"

\* The threshold after options a then b on a new instance.
ThresholdAfter(opA, parA, opB, parB) ==
  fl_setOption(fl_setOption(fl_init, opA, parA).fd, opB, parB).fd.prob_threshold

\* C28: the threshold option changes prob_threshold only if the mode is
\* already mediapipe-face-mesh when it is applied, and else leaves it at its
\* prior value (0.5 after init); so the mode option followed by the threshold
\* option ends with the requested threshold and the other order with 0.5,
\* which differ for every requested threshold other than 0.5.
C28_ThresholdNeedsMode ==
  /\ opt.opNum = 1 =>
       /\ opt.before.mode = MEDIAPIPE_FACE_MESH => fldata.prob_threshold = opt.param
       /\ opt.before.mode # MEDIAPIPE_FACE_MESH
            => fldata.prob_threshold = opt.before.prob_threshold
       /\ fldata = [opt.before EXCEPT !.prob_threshold = fldata.prob_threshold]
  /\ \A t \in ThresholdParams :
       /\ ThresholdAfter(0, "mediapipe-face-mesh", 1, t) = t
       /\ ThresholdAfter(1, t, 0, "mediapipe-face-mesh") = fl_init.prob_threshold
       /\ t # fl_init.prob_threshold
            => ThresholdAfter(0, "mediapipe-face-mesh", 1, t)
                 # ThresholdAfter(1, t, 0, "mediapipe-face-mesh")

\* C28 witness: the threshold option was applied before any mode was set,
\* with a value other than the prior one, and was ignored.
C28_Witness ==
  /\ opt.opNum = 1 /\ opt.before.mode # MEDIAPIPE_FACE_MESH
  /\ opt.param # opt.before.prob_threshold
  /\ fldata.prob_threshold = 5000

\* (x, y) lies in the bounding box of the two endpoints of the walk.
InBox(x, y) ==
  /\ MIN(line.ox0, line.x1) <= x /\ x <= MAX(line.ox0, line.x1)
  /\ MIN(line.oy0, line.y1) <= y /\ y <= MAX(line.oy0, line.y1)

\* C29: every centre the walk of draw_line visits lies in the bounding box
\* of (x0, y0) and (x1, y1); so when both endpoints are inside
\* [0, width-1] x [0, height-1], every visited centre is.
C29_WalkInBoundingBox ==
  /\ \A i \in DOMAIN line.visited : InBox(line.visited[i][1], line.visited[i][2])
  /\ line.st.exit # "idle" => InBox(line.st.x0, line.st.y0)
  /\ \A width \in 1..(MaxCoord + 1), height \in 1..(MaxCoord + 1) :
       (/\ line.st.exit # "idle"
        /\ {line.ox0, line.x1} \subseteq 0..(width - 1)
        /\ {line.oy0, line.y1} \subseteq 0..(height - 1))
         => \A i \in DOMAIN line.visited :
              /\ line.visited[i][1] \in 0..(width - 1)
              /\ line.visited[i][2] \in 0..(height - 1)

\* C29 witness: a walk between two points that differ in x and in y has
\* left the loop after at least three centres.
C29_Witness ==
  /\ LineExited /\ Len(line.visited) >= 3
  /\ line.ox0 # line.x1 /\ line.oy0 # line.y1
  /\ line.ox0 >= 0 /\ line.oy0 >= 0 /\ line.x1 >= 0 /\ line.y1 >= 0

\* C30: the scratch array a decode call allocates is freed exactly once
\* before the call returns, on every path; no call leaves a live one.
C30_ScratchFreedOnce ==
  /\ Count("points_new") <= 1
  /\ Before("points_new", "points_free")
  /\ Returned => Count("points_free") = Count("points_new")
  /\ (Returned /\ ret = "GST_FLOW_ERROR") => Count("points_new") = 0
  /\ ret = "abort" => Count("points_new") = 0

\* C30 witness: a second decode call has returned with its point array
\* allocated and freed, without having drawn.
C30_Witness ==
  /\ ndecode = 2 /\ ret = "GST_FLOW_OK" /\ ~Drew
  /\ Count("points_new") = 1 /\ Count("points_free") = 1


====
